---- MODULE Spec2Model ----
(***************************************************************************)
(* Adaptive quiz attempt engine of aztec-assess (backend/apps/quizzes).    *)
(*                                                                         *)
(* The database is the shared state: the question bank of the quiz's       *)
(* chapter, the quiz's num_questions, the QuizAttempt rows and the         *)
(* AttemptAnswer rows.  Every inbound HTTP request is served by one worker *)
(* (Requests); a worker runs exactly one request.  The views run in        *)
(* autocommit mode, so every ORM statement of StartAttemptView.create is   *)
(* its own committed step; services.attempts.submit_answer runs inside     *)
(* transaction.atomic (READ COMMITTED): its writes stay private to the     *)
(* worker until the commit, and its UPDATE of the attempt row holds the    *)
(* row lock until then.                                                    *)
(***************************************************************************)
EXTENDS Naturals, Integers, Sequences, FiniteSets, TLC

\* ---------------------------------------------------------------- bounds
NumRequests == 3        \* inbound requests (one worker each)
NumQuestions == 3       \* questions of the quiz's chapter
NumStudents == 1        \* students that are members of the course
MaxAttempts == 2        \* QuizAttempt rows ever created
MaxNumQuestions == 2    \* largest quiz.num_questions staff choose
MaxIndex == 1           \* largest selected_index / correct_index offered
MaxStaffOps == 1        \* staff edits while the requests run

Requests == 1..NumRequests
Questions == 1..NumQuestions
Students == 1..NumStudents
Indexes == 0..MaxIndex

\* the question ids a client sends: the chapter's questions and one id that
\* names no question of the chapter (unknown, or a question of another chapter)
QuestionIds == Questions \cup {NumQuestions + 1}

Null == 0

\* ---------------------------------------------------------------- enums
EASY == "EASY"
MEDIUM == "MEDIUM"
HARD == "HARD"
IN_PROGRESS == "IN_PROGRESS"
COMPLETED == "COMPLETED"

\* a stored current_difficulty that is none of the three choices
INVALID == "INVALID"

DIFFICULTY_ORDER == <<EASY, MEDIUM, HARD>>

Difficulties == {DIFFICULTY_ORDER[i] : i \in 1..Len(DIFFICULTY_ORDER)}

\* list.index(): position of d in DIFFICULTY_ORDER (1-based here)
IndexOf(d) == CHOOSE i \in 1..Len(DIFFICULTY_ORDER) : DIFFICULTY_ORDER[i] = d

VARIABLES
    question,            \* Question rows of the chapter: id -> record
    quiz_exists,         \* the Quiz row exists (it is not deleted)
    quiz_num_questions,  \* Quiz.num_questions
    attempts,            \* QuizAttempt rows, pk = position
    answers,             \* AttemptAnswer rows (committed)
    clock,               \* timezone.now(), a logical clock
    nstaff,              \* staff edits done so far
    pc,                  \* position of each request's worker
    req                  \* each request's inputs, locals and response

vars == <<question, quiz_exists, quiz_num_questions, attempts, answers, clock, nstaff, pc, req>>

\* ---------------------------------------------------------------- pure functions

\* the rule with the step down left out
next_difficulty_never_down(current, was_correct) ==
    IF ~was_correct THEN current
    ELSE IF current = EASY THEN MEDIUM ELSE HARD

next_difficulty_after(current, was_correct) ==
    LET cur == IF current \notin Difficulties THEN MEDIUM ELSE current
        idx == IndexOf(cur)
    IN  IF was_correct /\ idx < Len(DIFFICULTY_ORDER)
        THEN DIFFICULTY_ORDER[idx + 1]
        ELSE IF ~was_correct /\ idx > 1
             THEN DIFFICULTY_ORDER[idx - 1]
             ELSE cur

\* the bucket query without its is_active filter
unused_questions_any_status(bank, difficulty, excluded_ids) ==
    {q \in DOMAIN bank : bank[q].difficulty = difficulty /\ q \notin excluded_ids}

\* ids of the active questions of the chapter at `difficulty` outside excluded_ids
unused_questions_for(bank, difficulty, excluded_ids) ==
    {q \in DOMAIN bank : /\ bank[q].difficulty = difficulty
                         /\ bank[q].is_active
                         /\ q \notin excluded_ids}

\* the adjacent difficulties tried in the other order, one step up first
AdjacentsUpFirst(target) ==
    LET idx == IndexOf(target)
    IN  (IF idx + 1 <= Len(DIFFICULTY_ORDER) THEN <<DIFFICULTY_ORDER[idx + 1]>> ELSE <<>>)
        \o (IF idx - 1 >= 1 THEN <<DIFFICULTY_ORDER[idx - 1]>> ELSE <<>>)

\* the adjacent difficulties, one step down first, then one step up
Adjacents(target) ==
    LET idx == IndexOf(target)
    IN  (IF idx - 1 >= 1 THEN <<DIFFICULTY_ORDER[idx - 1]>> ELSE <<>>)
        \o (IF idx + 1 <= Len(DIFFICULTY_ORDER) THEN <<DIFFICULTY_ORDER[idx + 1]>> ELSE <<>>)

\* first non-empty bucket among the difficulties of the sequence ds
RECURSIVE FirstBucket(_, _, _)
FirstBucket(bank, ds, excluded_ids) ==
    IF ds = <<>> THEN {}
    ELSE LET c == unused_questions_for(bank, Head(ds), excluded_ids)
         IN  IF c # {} THEN c ELSE FirstBucket(bank, Tail(ds), excluded_ids)

\* the selection without its last tier: target, then adjacents, then None
select_without_fallback(bank, current_difficulty, answered_question_ids) ==
    LET target == IF current_difficulty \in Difficulties THEN current_difficulty ELSE MEDIUM
        t1 == unused_questions_for(bank, target, answered_question_ids)
    IN  IF t1 # {} THEN t1
        ELSE FirstBucket(bank, Adjacents(target), answered_question_ids)

\* the selection with the last tier only: any active unanswered question
select_any_unused(bank, current_difficulty, answered_question_ids) ==
    {q \in DOMAIN bank : bank[q].is_active /\ q \notin answered_question_ids}

\* select_next_question: the candidate_ids random.choice draws from; {} is None
select_next_question(bank, current_difficulty, answered_question_ids) ==
    LET target == IF current_difficulty \in Difficulties THEN current_difficulty ELSE MEDIUM
        t1 == unused_questions_for(bank, target, answered_question_ids)
        t2 == FirstBucket(bank, Adjacents(target), answered_question_ids)
        t3 == {q \in DOMAIN bank : bank[q].is_active /\ q \notin answered_question_ids}
    IN  IF t1 # {} THEN t1 ELSE IF t2 # {} THEN t2 ELSE t3

\* ---------------------------------------------------------------- rows

NewAttempt(s) ==
    [student |-> s, status |-> IN_PROGRESS, current_question |-> Null,
     current_difficulty |-> MEDIUM, num_answered |-> 0, num_correct |-> 0,
     ended_at |-> Null]

NoAttempt == [NewAttempt(0) EXCEPT !.status = "none"]

NoReq ==
    [kind |-> "none", student |-> 0, aid |-> 0, qid |-> 0, sel |-> 0,
     snap |-> NoAttempt, nq |-> 0, corr |-> FALSE,
     code |-> 0, outcome |-> "none", existing |-> 0,
     overlap |-> {}, answered |-> FALSE,
     excluded |-> {}, next_difficulty |-> "none", next_question |-> Null,
     active_at_arrival |-> {}, for_current |-> FALSE]

AttemptIds == 1..Len(attempts)

\* QuizAttempt.objects.filter(quiz, student, status=IN_PROGRESS)
InProgressOf(s) ==
    {a \in AttemptIds : attempts[a].student = s /\ attempts[a].status = IN_PROGRESS}

\* AttemptAnswer.objects.filter(attempt=a).values_list("question_id")
AnsweredIds(a) == {r.question : r \in {x \in answers : x.attempt = a}}

\* the worker whose open transaction holds the row lock of attempt a
LockedBy(a) == {w \in Requests : pc[w] = "a_finish" /\ req[w].aid = a}

\* one worker per inbound request; the requests are numbered in the order in
\* which their first statement runs
Arrives(w) == pc[w] = "idle" /\ \A v \in Requests : v < w => pc[v] # "idle"

\* ---------------------------------------------------------------- Init

Init ==
    /\ question \in [Questions -> [difficulty : Difficulties, is_active : BOOLEAN,
                                   correct_index : Indexes]]
    /\ \A q \in Questions :
          /\ question[q].difficulty = DIFFICULTY_ORDER[(q % 3) + 1]
          /\ question[q].correct_index = q % (MaxIndex + 1)
    /\ quiz_exists = TRUE
    /\ quiz_num_questions \in 0..MaxNumQuestions
    /\ attempts = <<>>
    /\ answers = {}
    /\ clock = 1
    /\ nstaff = 0
    /\ pc = [w \in Requests |-> "idle"]
    /\ req = [w \in Requests |-> NoReq]


\* ---------------------------------------------------------------- storage constraints

\* the same INSERT with the constraint not declared: only the application check remains
unique_constraint_not_declared(rows, s) == FALSE

\* the same INSERT with the condition on the wrong status
unique_constraint_on_completed(rows, s) ==
    \E a \in 1..Len(rows) : rows[a].student = s /\ rows[a].status = COMPLETED

\* UniqueConstraint(fields=[student, quiz], condition=Q(status=IN_PROGRESS)):
\* would inserting an IN_PROGRESS row for student s violate it?
unique_in_progress_attempt_per_student_quiz(rows, s) ==
    \E a \in 1..Len(rows) : rows[a].student = s /\ rows[a].status = IN_PROGRESS

\* unique_together = (attempt, question): is there a committed row for the pair?
unique_together_attempt_question(rows, a, q) ==
    \E r \in rows : r.attempt = a /\ r.question = q

\* ---------------------------------------------------------------- StartAttemptView.create

\* views.py 204-213: the application-level existence check.
\* active_at_arrival records the chapter's active questions at that moment.
StartCheck(w, s) ==
    /\ Arrives(w)
    /\ quiz_exists
    /\ LET existing == InProgressOf(s)
           me == [req[w] EXCEPT !.kind = "start", !.student = s,
                     !.active_at_arrival = {q \in Questions : question[q].is_active},
                     !.overlap = {v \in Requests \ {w} :
                                     /\ pc[v] \in {"s_create", "s_finish"}
                                     /\ req[v].student = s}]
       IN  IF existing # {}
           THEN /\ \E e \in existing :
                      req' = [req EXCEPT ![w] = [me EXCEPT !.code = 409,
                                  !.outcome = "AttemptAlreadyInProgress",
                                  !.existing = e]]
                /\ pc' = [pc EXCEPT ![w] = "done"]
           ELSE /\ req' = [req EXCEPT ![w] = me]
                /\ pc' = [pc EXCEPT ![w] = "s_create"]
    /\ UNCHANGED <<question, quiz_exists, quiz_num_questions, attempts, answers, clock, nstaff>>

\* views.py 215-218: QuizAttempt.objects.create, IntegrityError -> 409.
\* The INSERT waits while an open transaction holds the lock of an IN_PROGRESS
\* row of the same (student, quiz).
StartCreate(w) ==
    /\ pc[w] = "s_create"
    /\ \A a \in InProgressOf(req[w].student) : LockedBy(a) = {}
    /\ IF unique_in_progress_attempt_per_student_quiz(attempts, req[w].student)
       THEN /\ req' = [req EXCEPT ![w].code = 409,
                                  ![w].outcome = "AttemptAlreadyInProgress"]
            /\ pc' = [pc EXCEPT ![w] = "done"]
            /\ UNCHANGED attempts
       ELSE /\ Len(attempts) < MaxAttempts
            /\ attempts' = Append(attempts, NewAttempt(req[w].student))
            /\ req' = [req EXCEPT ![w].aid = Len(attempts) + 1,
                                  ![w].snap = NewAttempt(req[w].student)]
            /\ pc' = [pc EXCEPT ![w] = "s_finish"]
    /\ UNCHANGED <<question, quiz_exists, quiz_num_questions, answers, clock, nstaff>>

\* the completing save with status left out of update_fields
SaveEndedAtOnly(row, now) == [row EXCEPT !.ended_at = now]

\* views.py 222-224: save(update_fields=[status, ended_at]) of the completed attempt
SaveEnded(row, now) == [row EXCEPT !.status = COMPLETED, !.ended_at = now]

\* views.py 220-250: select_next_question(attempt, []) on the in-memory attempt,
\* then either save(status, ended_at) -> 200 or save(current_question) -> 201.
\* The UPDATE waits for the row lock.
StartFinish(w) ==
    /\ pc[w] = "s_finish"
    /\ LockedBy(req[w].aid) = {}
    /\ LET a == req[w].aid
           cands == select_next_question(question, req[w].snap.current_difficulty, {})
       IN  IF cands = {}
           THEN /\ attempts' = [attempts EXCEPT ![a] = SaveEnded(attempts[a], clock)]
                /\ clock' = clock + 1
                /\ req' = [req EXCEPT ![w].code = 200, ![w].outcome = "completed",
                                      ![w].snap = SaveEnded(req[w].snap, clock)]
           ELSE /\ \E q \in cands :
                      /\ attempts' = [attempts EXCEPT ![a].current_question = q]
                      /\ req' = [req EXCEPT ![w].code = 201, ![w].outcome = "created",
                                            ![w].snap.current_question = q]
                /\ UNCHANGED clock
    /\ pc' = [pc EXCEPT ![w] = "done"]
    /\ UNCHANGED <<question, quiz_exists, quiz_num_questions, answers, nstaff>>

\* ---------------------------------------------------------------- AttemptDetailView.retrieve

\* views.py 304-308: a read of the attempt row as committed
AttemptDetail(w, a) ==
    /\ Arrives(w)
    /\ a \in AttemptIds
    /\ req' = [req EXCEPT ![w] = [NoReq EXCEPT !.kind = "detail", !.aid = a,
                  !.student = attempts[a].student, !.snap = attempts[a],
                  !.code = 200, !.outcome = "detail"]]
    /\ pc' = [pc EXCEPT ![w] = "done"]
    /\ UNCHANGED <<question, quiz_exists, quiz_num_questions, attempts, answers, clock, nstaff>>


\* ---------------------------------------------------------------- SubmitAnswerView.create

\* views.py 257-272: get_attempt loads the attempt object (outside the
\* transaction), the serializer validates question_id and selected_index.
\* answered records whether a call for (attempt, question) had already succeeded,
\* for_current whether the request names the attempt's stored current_question.
SubmitLoad(w, a, q, i) ==
    /\ Arrives(w)
    /\ a \in AttemptIds
    /\ req' = [req EXCEPT ![w] = [NoReq EXCEPT !.kind = "submit", !.aid = a,
                  !.student = attempts[a].student, !.qid = q, !.sel = i,
                  !.snap = attempts[a],
                  !.answered = unique_together_attempt_question(answers, a, q),
                  !.for_current = (attempts[a].current_question = q)]]
    /\ pc' = [pc EXCEPT ![w] = "a_check"]
    /\ UNCHANGED <<question, quiz_exists, quiz_num_questions, attempts, answers, clock, nstaff>>

\* submit_answer without its duplicate check
answer_exists_not_checked(rows, a, q) == FALSE

\* attempts.py 29: AttemptAnswer.objects.filter(attempt, question).exists()
answer_exists(rows, a, q) == \E r \in rows : r.attempt = a /\ r.question = q

\* the lookup without its is_active filter
question_found_any_status(bank, q) == q \in DOMAIN bank

\* attempts.py 18-22: Question.objects.get(id, chapter, is_active=True) succeeds
question_found(bank, q) == q \in DOMAIN bank /\ bank[q].is_active

\* submit_answer without its guard on current_question
question_not_current_not_checked(attempt, q) == FALSE

\* attempts.py 26: the guard on the loaded attempt's current_question
question_not_current(attempt, q) ==
    attempt.current_question # Null /\ attempt.current_question # q

Fail(w, code, outcome) ==
    /\ req' = [req EXCEPT ![w].code = code, ![w].outcome = outcome]
    /\ pc' = [pc EXCEPT ![w] = "done"]

\* attempts.py 14-32: the checks of submit_answer, on the loaded attempt object
\* and on the rows as committed; is_correct and the cached attempt.quiz.
SubmitCheck(w) ==
    /\ pc[w] = "a_check"
    /\ LET a == req[w].aid
           q == req[w].qid
       IN  IF req[w].snap.status # IN_PROGRESS
           THEN Fail(w, 400, "AttemptCompleted")
           ELSE IF ~question_found(question, q)
           THEN Fail(w, 400, "QuestionNotFound")
           ELSE IF question_not_current(req[w].snap, q)
           THEN Fail(w, 409, "QuestionNotCurrent")
           ELSE IF answer_exists(answers, a, q)
           THEN Fail(w, 409, "DuplicateAnswer")
           ELSE /\ req' = [req EXCEPT ![w].nq = quiz_num_questions,
                                      ![w].corr = (req[w].sel = question[q].correct_index)]
                /\ pc' = [pc EXCEPT ![w] = "a_write"]
    /\ UNCHANGED <<question, quiz_exists, quiz_num_questions, attempts, answers, clock, nstaff>>

\* the AttemptAnswer row of the request
AnswerRow(w) ==
    [attempt |-> req[w].aid, question |-> req[w].qid,
     selected_index |-> req[w].sel, is_correct |-> req[w].corr]

\* attempts.py 40-43: the counters and difficulty of the in-memory attempt
Counted(attempt, is_correct) ==
    [attempt EXCEPT !.num_answered = attempt.num_answered + 1,
                    !.num_correct = attempt.num_correct + (IF is_correct THEN 1 ELSE 0),
                    !.current_difficulty =
                        next_difficulty_after(attempt.current_difficulty, is_correct)]

\* submit_answer without its completion threshold
num_questions_not_checked(attempt, num_questions) == FALSE

\* attempts.py 45: the completion threshold
reached_num_questions(attempt, num_questions) == attempt.num_answered >= num_questions

\* a save that leaves the counters out of update_fields
SaveNoCounters(row, obj) == row

\* save(update_fields=[num_answered, num_correct, current_difficulty, ...]) of the
\* in-memory attempt obj over the committed row
SaveCounters(row, obj) ==
    [row EXCEPT !.num_answered = obj.num_answered,
                !.num_correct = obj.num_correct,
                !.current_difficulty = obj.current_difficulty]

\* the completing save with current_question left out of update_fields
SaveCompletedKeepingQuestion(row, now) ==
    [row EXCEPT !.status = COMPLETED, !.ended_at = now]

\* attempts.py 46-58, 72-77: the completing save of submit_answer
SaveCompleted(row, now) ==
    [row EXCEPT !.status = COMPLETED, !.ended_at = now, !.current_question = Null]

\* attempts.py 33-65: INSERT of the answer row (IntegrityError on a committed
\* duplicate propagates, the transaction rolls back and the view has no handler),
\* the counters, and either the completing save + commit (45-63) or the first
\* save (65), which takes the row lock until the commit.
SubmitWrite(w) ==
    /\ pc[w] = "a_write"
    /\ LET a == req[w].aid
           obj == Counted(req[w].snap, req[w].corr)
       IN  IF unique_together_attempt_question(answers, a, req[w].qid)
           THEN /\ Fail(w, 500, "IntegrityError")
                /\ UNCHANGED <<attempts, answers, clock>>
           ELSE /\ LockedBy(a) = {}
                /\ IF reached_num_questions(obj, req[w].nq)
                   THEN /\ answers' = answers \cup {AnswerRow(w)}
                        /\ attempts' = [attempts EXCEPT ![a] =
                               SaveCompleted(SaveCounters(attempts[a], obj), clock)]
                        /\ clock' = clock + 1
                        /\ req' = [req EXCEPT ![w].snap = SaveCompleted(obj, clock),
                                              ![w].code = 200, ![w].outcome = "completed"]
                        /\ pc' = [pc EXCEPT ![w] = "done"]
                   ELSE /\ req' = [req EXCEPT ![w].snap = obj]
                        /\ pc' = [pc EXCEPT ![w] = "a_finish"]
                        /\ UNCHANGED <<attempts, answers, clock>>
    /\ UNCHANGED <<question, quiz_exists, quiz_num_questions, nstaff>>

\* attempts.py 67-90 and the commit: answered ids (committed rows and the
\* transaction's own), select_next_question, the last save; the answer row and
\* every saved field become visible together.
SubmitFinish(w) ==
    /\ pc[w] = "a_finish"
    /\ LET a == req[w].aid
           obj == req[w].snap
           answered_ids == AnsweredIds(a) \cup {req[w].qid}
           cands == select_next_question(question, obj.current_difficulty, answered_ids)
       IN  /\ answers' = answers \cup {AnswerRow(w)}
           /\ IF cands = {}
              THEN /\ attempts' = [attempts EXCEPT ![a] =
                          SaveCompleted(SaveCounters(attempts[a], obj), clock)]
                   /\ clock' = clock + 1
                   /\ req' = [req EXCEPT ![w].snap = SaveCompleted(obj, clock),
                                         ![w].code = 200, ![w].outcome = "completed"]
              ELSE /\ \E n \in cands :
                         /\ attempts' = [attempts EXCEPT ![a] =
                                [SaveCounters(attempts[a], obj) EXCEPT !.current_question = n]]
                         /\ req' = [req EXCEPT ![w].snap.current_question = n,
                                               ![w].code = 200, ![w].outcome = "next"]
                   /\ UNCHANGED clock
    /\ pc' = [pc EXCEPT ![w] = "done"]
    /\ UNCHANGED <<question, quiz_exists, quiz_num_questions, nstaff>>

\* attempts.py 8: transaction.atomic.  A statement after the INSERT raises (a
\* database error): the transaction is rolled back, so neither the answer row
\* nor the saved counters are ever committed, and the request ends as a server error.
SubmitAbort(w) ==
    /\ pc[w] = "a_finish"
    /\ Fail(w, 500, "ServerError")
    /\ UNCHANGED <<question, quiz_exists, quiz_num_questions, attempts, answers, clock, nstaff>>

\* ---------------------------------------------------------------- staff

\* QuizDetailView.update: staff set num_questions
QuizUpdate(n) ==
    /\ nstaff < MaxStaffOps
    /\ quiz_exists
    /\ n # quiz_num_questions
    /\ quiz_num_questions' = n
    /\ nstaff' = nstaff + 1
    /\ UNCHANGED <<question, quiz_exists, attempts, answers, clock, pc, req>>

\* QuestionDetailView.destroy: soft delete
QuestionDestroy(q) ==
    /\ nstaff < MaxStaffOps
    /\ question[q].is_active
    /\ question' = [question EXCEPT ![q].is_active = FALSE]
    /\ nstaff' = nstaff + 1
    /\ UNCHANGED <<quiz_exists, quiz_num_questions, attempts, answers, clock, pc, req>>

\* ---------------------------------------------------------------- specification

Next ==
    \/ \E w \in Requests, s \in Students : StartCheck(w, s)
    \/ \E w \in Requests : StartCreate(w)
    \/ \E w \in Requests : StartFinish(w)
    \/ \E w \in Requests, a \in 1..MaxAttempts : AttemptDetail(w, a)
    \/ \E w \in Requests, a \in 1..MaxAttempts, q \in QuestionIds, i \in Indexes :
          SubmitLoad(w, a, q, i)
    \/ \E w \in Requests : SubmitCheck(w)
    \/ \E w \in Requests : SubmitWrite(w)
    \/ \E w \in Requests : SubmitFinish(w)
    \/ \E w \in Requests : SubmitAbort(w)
    \/ \E n \in 0..MaxNumQuestions : QuizUpdate(n)
    \/ \E q \in Questions : QuestionDestroy(q)

Spec == Init /\ [][Next]_vars

\* every request is served by a worker that keeps running: a step of a request
\* that stays possible is eventually taken
ServedFairly ==
    \A w \in Requests :
        /\ WF_vars(StartCreate(w))
        /\ WF_vars(StartFinish(w))
        /\ WF_vars(SubmitCheck(w))
        /\ WF_vars(SubmitWrite(w))
        /\ WF_vars(SubmitFinish(w) \/ SubmitAbort(w))

\* the requests alone: num_questions is at least 1 and no staff operation
\* changes the bank or the quiz while they run
InitUnchangedBank ==
    /\ Init
    /\ quiz_num_questions >= 1

NextUnchangedBank ==
    \/ \E w \in Requests, s \in Students : StartCheck(w, s)
    \/ \E w \in Requests : StartCreate(w)
    \/ \E w \in Requests : StartFinish(w)
    \/ \E w \in Requests, a \in 1..MaxAttempts : AttemptDetail(w, a)
    \/ \E w \in Requests, a \in 1..MaxAttempts, q \in QuestionIds, i \in Indexes :
          SubmitLoad(w, a, q, i)
    \/ \E w \in Requests : SubmitCheck(w)
    \/ \E w \in Requests : SubmitWrite(w)
    \/ \E w \in Requests : SubmitFinish(w)
    \/ \E w \in Requests : SubmitAbort(w)

SpecUnchangedBank ==
    InitUnchangedBank /\ [][NextUnchangedBank]_vars /\ ServedFairly

\* ---------------------------------------------------------------- deletion of the quiz

\* QuizDetailView.destroy: DestroyModelMixin deletes the Quiz row; the delete
\* cascades to its QuizAttempt rows (QuizAttempt.quiz, on_delete=CASCADE) and
\* from them to their AttemptAnswer rows (AttemptAnswer.attempt,
\* on_delete=CASCADE).  Taken while no request is being served.
QuizDestroy ==
    /\ quiz_exists
    /\ \A w \in Requests : pc[w] \in {"idle", "done"}
    /\ quiz_exists' = FALSE
    /\ attempts' = <<>>
    /\ answers' = {}
    /\ UNCHANGED <<question, quiz_num_questions, clock, nstaff, pc, req>>

NextWithQuizDestroy ==
    \/ Next
    \/ QuizDestroy

SpecWithQuizDestroy == Init /\ [][NextWithQuizDestroy]_vars

\* ---------------------------------------------------------------- the selection service on its own

\* any bank of the chapter; one call of a service function per behaviour
InitSelection ==
    /\ question \in [Questions -> [difficulty : Difficulties, is_active : BOOLEAN,
                                   correct_index : Indexes]]
    /\ \A q \in Questions : question[q].correct_index = q % (MaxIndex + 1)
    /\ quiz_exists = TRUE
    /\ quiz_num_questions = MaxNumQuestions
    /\ attempts = <<>>
    /\ answers = {}
    /\ clock = 1
    /\ nstaff = 0
    /\ pc = [w \in Requests |-> "idle"]
    /\ req = [w \in Requests |-> NoReq]

Called(w) == Arrives(w) /\ \A v \in Requests : pc[v] = "idle"

\* next_difficulty_after(current, was_correct)
NextDifficultyCall(w, current, was_correct) ==
    /\ Called(w)
    /\ req' = [req EXCEPT ![w] = [NoReq EXCEPT !.kind = "next_difficulty_after",
                  !.snap.current_difficulty = current, !.corr = was_correct,
                  !.next_difficulty = next_difficulty_after(current, was_correct)]]
    /\ pc' = [pc EXCEPT ![w] = "done"]
    /\ UNCHANGED <<question, quiz_exists, quiz_num_questions, attempts, answers, clock, nstaff>>

\* select_next_question(attempt, answered_question_ids): random.choice over the
\* candidate ids, None (Null) when there are none
SelectNextCall(w, current_difficulty, answered_question_ids) ==
    /\ Called(w)
    /\ LET cands == select_next_question(question, current_difficulty,
                                         answered_question_ids)
           me == [NoReq EXCEPT !.kind = "select_next_question",
                     !.snap.current_difficulty = current_difficulty,
                     !.excluded = answered_question_ids]
       IN  IF cands = {}
           THEN req' = [req EXCEPT ![w] = me]
           ELSE \E n \in cands : req' = [req EXCEPT ![w] = [me EXCEPT !.next_question = n]]
    /\ pc' = [pc EXCEPT ![w] = "done"]
    /\ UNCHANGED <<question, quiz_exists, quiz_num_questions, attempts, answers, clock, nstaff>>

NextSelection ==
    \/ \E w \in Requests, d \in Difficulties \cup {INVALID}, ok \in BOOLEAN :
          NextDifficultyCall(w, d, ok)
    \/ \E w \in Requests, d \in Difficulties \cup {INVALID}, ids \in SUBSET QuestionIds :
          SelectNextCall(w, d, ids)

SpecSelection == InitSelection /\ [][NextSelection]_vars


\* ---------------------------------------------------------------- properties

RowsOf(a) == {r \in answers : r.attempt = a}

\* C1: in every reachable state at most one QuizAttempt with status IN_PROGRESS
\* exists for each (student, quiz) pair.
C1_OneInProgressPerStudentQuiz ==
    \A s \in Students : Cardinality(InProgressOf(s)) <= 1

\* C1 witness: a second request passed the existence check, reached the INSERT
\* and was refused by the storage constraint while one attempt is IN_PROGRESS.
C1_Witness ==
    \E w \in Requests :
        /\ pc[w] = "done" /\ req[w].kind = "start"
        /\ req[w].code = 409 /\ req[w].existing = Null
        /\ Cardinality(InProgressOf(req[w].student)) = 1

\* two finished start_attempt requests of one student that ran concurrently,
\* the only start requests of that student (so none was IN_PROGRESS beforehand)
StartRace(w1, w2) ==
    /\ w1 # w2
    /\ pc[w1] = "done" /\ pc[w2] = "done"
    /\ req[w1].kind = "start" /\ req[w2].kind = "start"
    /\ req[w1].student = req[w2].student
    /\ (w1 \in req[w2].overlap \/ w2 \in req[w1].overlap)
    /\ \A w3 \in Requests \ {w1, w2} :
          ~(req[w3].kind = "start" /\ req[w3].student = req[w1].student)

Created(w) == req[w].code \in {200, 201} /\ req[w].aid # Null

Conflict(w) == req[w].code = 409 /\ req[w].outcome = "AttemptAlreadyInProgress"

\* C2 as stated: of two concurrent start_attempt requests with no IN_PROGRESS
\* attempt beforehand exactly one creates an attempt and the other gets 409.
C2_ExactlyOneStartSucceeds ==
    \A w1, w2 \in Requests :
        StartRace(w1, w2) =>
            \/ Created(w1) /\ Conflict(w2)
            \/ Created(w2) /\ Conflict(w1)

\* C2 amended: at least one of the two creates an attempt, one that does not
\* ends with 409, and both create one only when the attempt created first is
\* COMPLETED (so it was no longer IN_PROGRESS at the second INSERT).
C2_StartRaceOutcome ==
    \A w1, w2 \in Requests :
        StartRace(w1, w2) =>
            /\ Created(w1) \/ Created(w2)
            /\ ~Created(w1) => Conflict(w1)
            /\ ~Created(w2) => Conflict(w2)
            /\ (Created(w1) /\ Created(w2) /\ req[w1].aid < req[w2].aid) =>
                  attempts[req[w1].aid].status = COMPLETED

\* C2 witness: both requests passed the existence check before either INSERT;
\* one created the attempt, the other was refused with 409.
C2_Witness ==
    \E w1, w2 \in Requests :
        /\ StartRace(w1, w2)
        /\ Created(w1) /\ req[w1].code = 201
        /\ Conflict(w2) /\ req[w2].existing = Null

\* C3: no concurrent request (attempt detail read, submit_answer) observes an
\* attempt in the intermediate state IN_PROGRESS with current_question null.
C3_NoReaderSeesUnassignedAttempt ==
    \A w \in Requests :
        (\/ req[w].kind = "detail"
         \/ req[w].kind = "submit" /\ pc[w] = "a_check") =>
            ~(req[w].snap.status = IN_PROGRESS /\ req[w].snap.current_question = Null)

\* C4: for every attempt num_answered equals the number of its AttemptAnswer rows.
C4_NumAnsweredCountsRows ==
    \A a \in AttemptIds : attempts[a].num_answered = Cardinality(RowsOf(a))

\* C5: for every attempt num_answered is at most the quiz's num_questions.
C5_NumAnsweredAtMostNumQuestions ==
    \A a \in AttemptIds : attempts[a].num_answered <= quiz_num_questions

\* a submit_answer request made after a call for the same (attempt, question)
\* had succeeded, and finished
Resubmitted(w) == req[w].kind = "submit" /\ req[w].answered /\ pc[w] = "done"

\* C6 as stated: a second submit_answer for an already answered question fails
\* with DuplicateAnswer ("question already answered", 409).
C6_SecondSubmitIsDuplicateAnswer ==
    \A w \in Requests :
        Resubmitted(w) => req[w].code = 409 /\ req[w].outcome = "DuplicateAnswer"

\* C6 amended: a second submit_answer for an already answered question fails and
\* no step of it changes an attempt row or the AttemptAnswer rows; it fails with
\* AttemptCompleted (400) when the attempt it loaded is COMPLETED, else with
\* QuestionNotFound (400) when the question is no longer active, else with
\* QuestionNotCurrent (409) when the loaded attempt points at another question,
\* and with DuplicateAnswer (409) only otherwise.
C6_SecondSubmitFailsAndChangesNothing ==
    [][\A w \in Requests :
          (pc'[w] # pc[w] /\ req'[w].kind = "submit" /\ req'[w].answered) =>
              /\ attempts' = attempts
              /\ answers' = answers
              /\ pc'[w] \in {"a_check", "done"}
              /\ pc'[w] = "done" =>
                    LET loaded == req[w].snap
                        q == req[w].qid
                    IN  IF loaded.status = COMPLETED
                        THEN req'[w].code = 400 /\ req'[w].outcome = "AttemptCompleted"
                        ELSE IF ~question[q].is_active
                        THEN req'[w].code = 400 /\ req'[w].outcome = "QuestionNotFound"
                        ELSE IF loaded.current_question \notin {Null, q}
                        THEN req'[w].code = 409 /\ req'[w].outcome = "QuestionNotCurrent"
                        ELSE req'[w].code = 409 /\ req'[w].outcome = "DuplicateAnswer"]_vars

\* C6 witness: the second call for the answered question was refused because the
\* attempt had moved on to its next question.
C6_Witness ==
    \E w \in Requests :
        /\ Resubmitted(w)
        /\ req[w].outcome = "QuestionNotCurrent"
        /\ attempts[req[w].aid].num_answered = 1
        /\ Cardinality(RowsOf(req[w].aid)) = 1

\* C7: COMPLETED is terminal: once an attempt is COMPLETED no later step changes
\* any of its fields or its AttemptAnswer rows, and a submit_answer request that
\* loaded the attempt as COMPLETED fails with AttemptCompleted (400).
C7_CompletedIsTerminal ==
    [][\A a \in AttemptIds :
          attempts[a].status = COMPLETED =>
              /\ attempts'[a] = attempts[a]
              /\ {r \in answers' : r.attempt = a} = RowsOf(a)
              /\ \A w \in Requests :
                    (req[w].kind = "submit" /\ req[w].aid = a
                       /\ req[w].snap.status = COMPLETED
                       /\ pc[w] = "a_check" /\ pc'[w] # pc[w]) =>
                          /\ pc'[w] = "done"
                          /\ req'[w].code = 400
                          /\ req'[w].outcome = "AttemptCompleted"]_vars

\* C8: every COMPLETED attempt has current_question null.
C8_CompletedHasNoCurrentQuestion ==
    \A a \in AttemptIds :
        attempts[a].status = COMPLETED => attempts[a].current_question = Null

\* C9: an attempt whose num_answered equals num_questions is COMPLETED with
\* current_question null.
C9_NumQuestionsReachedIsCompleted ==
    \A a \in AttemptIds :
        attempts[a].num_answered = quiz_num_questions =>
            /\ attempts[a].status = COMPLETED
            /\ attempts[a].current_question = Null

\* C10: every successful submit_answer increases num_answered by exactly 1 and
\* num_correct by 1 when selected_index is the question's correct_index and by 0
\* otherwise, and the created row records that is_correct.
C10_SubmitCountsOnce ==
    [][\A w \in Requests :
          (req[w].kind = "submit" /\ pc[w] # "done" /\ pc'[w] = "done"
             /\ req'[w].code = 200) =>
              LET a == req[w].aid
                  ok == req[w].sel = question[req[w].qid].correct_index
              IN  /\ attempts'[a].num_answered = attempts[a].num_answered + 1
                  /\ attempts'[a].num_correct =
                        attempts[a].num_correct + (IF ok THEN 1 ELSE 0)
                  /\ \E r \in answers' \ answers :
                        /\ r.attempt = a /\ r.question = req[w].qid
                        /\ r.is_correct = ok]_vars

\* a submit_answer call at the step that runs its checks
Checks(w) == req[w].kind = "submit" /\ pc[w] = "a_check" /\ pc'[w] # pc[w]

\* C11: submit_answer on an IN_PROGRESS attempt whose current_question is set,
\* with a question_id naming a different active question of the chapter, fails
\* with QuestionNotCurrent (409), creates no AttemptAnswer row and changes no
\* attempt field.
C11_NonCurrentQuestionRejected ==
    [][\A w \in Requests :
          (/\ Checks(w)
           /\ req[w].snap.status = IN_PROGRESS
           /\ req[w].snap.current_question # Null
           /\ req[w].snap.current_question # req[w].qid
           /\ req[w].qid \in DOMAIN question
           /\ question[req[w].qid].is_active) =>
              /\ pc'[w] = "done"
              /\ req'[w].code = 409
              /\ req'[w].outcome = "QuestionNotCurrent"
              /\ attempts' = attempts
              /\ answers' = answers]_vars

\* C11 witness: a submit_answer for an active question that was never answered
\* and is not the attempt's current one was refused; the attempt still points
\* at its current question and has no answer row.
C11_Witness ==
    \E w \in Requests :
        /\ req[w].kind = "submit" /\ pc[w] = "done"
        /\ req[w].outcome = "QuestionNotCurrent" /\ req[w].code = 409
        /\ ~req[w].answered
        /\ req[w].qid \in DOMAIN question /\ question[req[w].qid].is_active
        /\ attempts[req[w].aid].status = IN_PROGRESS
        /\ attempts[req[w].aid].current_question \notin {Null, req[w].qid}
        /\ RowsOf(req[w].aid) = {}

\* C12: submit_answer on an IN_PROGRESS attempt with a question_id that names no
\* active question of the chapter (unknown id, question of another chapter,
\* soft-deleted question) fails with QuestionNotFound (400), creates no
\* AttemptAnswer row and changes no attempt field.
C12_UnknownQuestionRejected ==
    [][\A w \in Requests :
          (/\ Checks(w)
           /\ req[w].snap.status = IN_PROGRESS
           /\ \/ req[w].qid \notin DOMAIN question
              \/ ~question[req[w].qid].is_active) =>
              /\ pc'[w] = "done"
              /\ req'[w].code = 400
              /\ req'[w].outcome = "QuestionNotFound"
              /\ attempts' = attempts
              /\ answers' = answers]_vars

\* C12 witness: on one IN_PROGRESS attempt a submit_answer naming an id outside
\* the chapter and one naming a soft-deleted question of the chapter were both
\* refused, and the attempt has no answer row.
C12_Witness ==
    \E w1, w2 \in Requests :
        /\ req[w1].kind = "submit" /\ pc[w1] = "done"
        /\ req[w2].kind = "submit" /\ pc[w2] = "done"
        /\ req[w1].aid = req[w2].aid
        /\ req[w1].outcome = "QuestionNotFound" /\ req[w1].code = 400
        /\ req[w2].outcome = "QuestionNotFound" /\ req[w2].code = 400
        /\ req[w1].qid \notin DOMAIN question
        /\ req[w2].qid \in DOMAIN question /\ ~question[req[w2].qid].is_active
        /\ attempts[req[w1].aid].status = IN_PROGRESS
        /\ attempts[req[w1].aid].current_question # Null
        /\ RowsOf(req[w1].aid) = {}

\* the reference rule on the scale EASY < MEDIUM < HARD, as tables
OneStepUp == (EASY :> MEDIUM) @@ (MEDIUM :> HARD) @@ (HARD :> HARD)

OneStepDown == (EASY :> EASY) @@ (MEDIUM :> EASY) @@ (HARD :> MEDIUM)

ReferenceNextDifficulty(current, was_correct) ==
    LET c == IF current \in {EASY, MEDIUM, HARD} THEN current ELSE MEDIUM
    IN  IF was_correct THEN OneStepUp[c] ELSE OneStepDown[c]

\* C13: for every current value and both outcomes next_difficulty_after equals
\* the reference rule (one step up capped at HARD when correct, one step down
\* capped at EASY when incorrect, a value outside the three valid ones first
\* replaced by MEDIUM), and the result is one of EASY, MEDIUM, HARD.
C13_NextDifficultyFollowsRule ==
    \A w \in Requests :
        req[w].kind = "next_difficulty_after" =>
            /\ req[w].next_difficulty =
                  ReferenceNextDifficulty(req[w].snap.current_difficulty, req[w].corr)
            /\ req[w].next_difficulty \in {EASY, MEDIUM, HARD}

\* C13 witness: a call with a current value outside the three valid ones and an
\* incorrect answer returned EASY.
C13_Witness ==
    \E w \in Requests :
        /\ req[w].kind = "next_difficulty_after"
        /\ req[w].snap.current_difficulty \notin {EASY, MEDIUM, HARD}
        /\ ~req[w].corr
        /\ req[w].next_difficulty = EASY

\* a finished call of select_next_question
Selected(w) == req[w].kind = "select_next_question" /\ pc[w] = "done"

\* the target difficulty of the call
TargetOf(w) ==
    IF req[w].snap.current_difficulty \in {EASY, MEDIUM, HARD}
    THEN req[w].snap.current_difficulty ELSE MEDIUM

\* the active questions of the chapter outside the call's answered_question_ids
Available(w) ==
    {q \in Questions : question[q].is_active /\ q \notin req[w].excluded}

\* C14: select_next_question never returns a question whose id is in
\* answered_question_ids and never one with is_active = false, whichever tier
\* (target, adjacent, any) the question comes from.
C14_SelectedIsActiveAndUnanswered ==
    \A w \in Requests :
        (Selected(w) /\ req[w].next_question # Null) =>
            /\ req[w].next_question \in Questions
            /\ req[w].next_question \notin req[w].excluded
            /\ question[req[w].next_question].is_active

\* C14 witness: a call answered from the last tier (the returned question is two
\* steps away from the target) while the chapter's question at the target
\* difficulty is inactive or already answered.
C14_Witness ==
    \E w \in Requests :
        /\ Selected(w) /\ req[w].next_question # Null
        /\ {TargetOf(w), question[req[w].next_question].difficulty} = {EASY, HARD}
        /\ \E q \in Questions :
              /\ question[q].difficulty = TargetOf(w)
              /\ ~question[q].is_active \/ q \in req[w].excluded

\* C15: select_next_question returns no question if and only if the chapter has
\* no active question outside answered_question_ids; whenever one exists, some
\* question is returned.
C15_NoneIffNothingAvailable ==
    \A w \in Requests :
        Selected(w) => (req[w].next_question = Null <=> Available(w) = {})

\* C15 witness: with some ids already answered, a call returned the only
\* available question of the chapter, which only the last tier could supply
\* (nothing is available at the target or next to it).
C15_Witness ==
    \E w \in Requests :
        /\ Selected(w) /\ req[w].next_question # Null
        /\ Available(w) = {req[w].next_question}
        /\ {TargetOf(w), question[req[w].next_question].difficulty} = {EASY, HARD}
        /\ req[w].excluded # {}

\* C16: whenever the chapter has an active unanswered question at the target
\* difficulty (the attempt's current_difficulty, MEDIUM when that is invalid),
\* the returned question has exactly the target difficulty.
C16_TargetTierFirst ==
    \A w \in Requests :
        (Selected(w) /\ \E q \in Available(w) : question[q].difficulty = TargetOf(w)) =>
            /\ req[w].next_question # Null
            /\ question[req[w].next_question].difficulty = TargetOf(w)

\* C16 witness: the attempt's current_difficulty is invalid, the chapter has an
\* available MEDIUM question and an available question of another difficulty,
\* and the MEDIUM one was returned.
C16_Witness ==
    \E w \in Requests :
        /\ Selected(w)
        /\ req[w].snap.current_difficulty \notin {EASY, MEDIUM, HARD}
        /\ req[w].next_question # Null
        /\ question[req[w].next_question].difficulty = MEDIUM
        /\ \E q \in Available(w) : question[q].difficulty # MEDIUM

\* the active questions of the chapter
ActiveQuestions == {q \in Questions : question[q].is_active}

\* C17: start_attempt, with no IN_PROGRESS attempt of the (student, quiz) and an
\* active question in the chapter, creates one attempt that is IN_PROGRESS with
\* current_difficulty MEDIUM, num_answered 0, num_correct 0 and current_question
\* an active question of the chapter, and reports it with status 201.
C17_StartCreatesFreshAttempt ==
    [][\A w \in Requests :
          (pc[w] = "s_finish" /\ pc'[w] = "done" /\ ActiveQuestions # {}) =>
              /\ req'[w].code = 201
              /\ \E q \in ActiveQuestions :
                    attempts'[req[w].aid] =
                        [NewAttempt(req[w].student) EXCEPT !.current_question = q]]_vars

\* a start_attempt request that created an attempt, finished, and found no
\* active question in the chapter when it arrived
StartedOnEmptyBank(w) ==
    /\ req[w].kind = "start" /\ pc[w] = "done"
    /\ req[w].aid # Null
    /\ req[w].active_at_arrival = {}

\* C18: start_attempt on a quiz whose chapter has no active question creates an
\* attempt that is COMPLETED with ended_at set, current_question null,
\* num_answered 0 and num_correct 0 and reports the completion with status 200;
\* the attempt is not left IN_PROGRESS, then or later.
C18_EmptyBankCompletesAtOnce ==
    \A w \in Requests :
        StartedOnEmptyBank(w) =>
            /\ req[w].code = 200 /\ req[w].outcome = "completed"
            /\ req[w].snap.status = COMPLETED
            /\ req[w].snap.num_correct = 0
            /\ attempts[req[w].aid].status = COMPLETED
            /\ attempts[req[w].aid].ended_at # Null
            /\ attempts[req[w].aid].current_question = Null
            /\ attempts[req[w].aid].num_answered = 0
            /\ attempts[req[w].aid].num_correct = 0

\* C18 witness: the attempt was created and completed on an empty bank while a
\* submit_answer that had loaded it before the completing save was refused.
C18_Witness ==
    \E w, v \in Requests :
        /\ StartedOnEmptyBank(w)
        /\ attempts[req[w].aid].status = COMPLETED
        /\ req[v].kind = "submit" /\ pc[v] = "done" /\ req[v].aid = req[w].aid
        /\ req[v].snap.status = IN_PROGRESS
        /\ req[v].outcome = "QuestionNotFound"

\* C19: a start_attempt refused with AttemptAlreadyInProgress (409) returns the
\* id of the existing attempt of the (student, quiz) on every path (application
\* check and storage-constraint violation alike) and creates no attempt.
C19_ConflictReturnsExistingAttempt ==
    \A w \in Requests :
        (req[w].kind = "start" /\ pc[w] = "done" /\ Conflict(w)) =>
            /\ req[w].aid = Null
            /\ req[w].existing \in AttemptIds
            /\ attempts[req[w].existing].student = req[w].student

\* C20: when two concurrent submit_answer calls for the same attempt and
\* question both pass the duplicate check, the uniqueness violation of the
\* loser's INSERT is surfaced as a conflict (409) and adds neither a row nor a
\* counter increment to those of the winner.
C20_LostInsertRaceIsConflict ==
    [][\A w \in Requests :
          (/\ req[w].kind = "submit"
           /\ pc[w] = "a_write" /\ pc'[w] = "done"
           /\ unique_together_attempt_question(answers, req[w].aid, req[w].qid)) =>
              /\ req'[w].code = 409
              /\ answers' = answers
              /\ attempts' = attempts]_vars

\* the AttemptAnswer rows of attempt a that a step commits
NewRowsOf(a) == {r \in answers' : r.attempt = a} \ RowsOf(a)

\* a submit_answer request whose transaction commits in this step
Commits(w) ==
    /\ req[w].kind = "submit"
    /\ pc[w] \in {"a_write", "a_finish"} /\ pc'[w] = "done"
    /\ req'[w].code = 200

\* C21: submit_answer is all-or-nothing for concurrent readers: the committed
\* state never shows an AttemptAnswer row without the counters of the same call,
\* nor the counters without the row and the status / current_question update of
\* the same call; a call that fails shows neither a row nor a counter change.
C21_SubmitIsAllOrNothing ==
    [][/\ \A a \in AttemptIds :
             (NewRowsOf(a) # {} \/ attempts'[a] # attempts[a]) =>
                 \/ \E w \in Requests :
                       /\ Commits(w) /\ req[w].aid = a
                       /\ NewRowsOf(a) = {AnswerRow(w)}
                       /\ attempts'[a].num_answered = req'[w].snap.num_answered
                       /\ attempts'[a].num_correct = req'[w].snap.num_correct
                       /\ attempts'[a].current_difficulty = req'[w].snap.current_difficulty
                       /\ attempts'[a].current_question = req'[w].snap.current_question
                       /\ req'[w].outcome = "completed" =>
                             /\ attempts'[a].status = COMPLETED
                             /\ attempts'[a].ended_at = req'[w].snap.ended_at
                 \/ \E w \in Requests :
                       /\ req[w].kind = "start" /\ req[w].aid = a
                       /\ pc[w] = "s_finish" /\ pc'[w] = "done"
                       /\ NewRowsOf(a) = {}
       /\ \A w \in Requests :
             (req[w].kind = "submit" /\ pc'[w] = "done" /\ pc[w] # "done"
                /\ req'[w].code # 200) =>
                 /\ answers' = answers
                 /\ attempts' = attempts]_vars

\* C21 witness: a submit_answer failed after its answer row was created and
\* left nothing behind, while a reader of the attempt saw it unchanged.
C21_Witness ==
    \E w, v \in Requests :
        /\ req[w].kind = "submit" /\ pc[w] = "done" /\ req[w].outcome = "ServerError"
        /\ req[w].snap.num_answered = 1
        /\ RowsOf(req[w].aid) = {}
        /\ attempts[req[w].aid].num_answered = 0
        /\ req[v].kind = "detail" /\ req[v].aid = req[w].aid
        /\ req[v].snap = attempts[req[w].aid]
        /\ req[v].snap.current_question # Null

\* the scale EASY < MEDIUM < HARD
DifficultyRank == (EASY :> 1) @@ (MEDIUM :> 2) @@ (HARD :> 3)

\* the available questions of the call at `steps` steps from the target
AvailableAt(w, steps) ==
    {q \in Available(w) :
        DifficultyRank[question[q].difficulty] = DifficultyRank[TargetOf(w)] + steps}

\* C22: when the target tier is empty, select_next_question returns a question
\* one step lower if an active unanswered one exists, otherwise one one step
\* higher if one exists, and a question of the remaining difficulty only when
\* both adjacent tiers are empty.
C22_DownBeforeUpBeforeAny ==
    \A w \in Requests :
        (Selected(w) /\ AvailableAt(w, 0) = {}) =>
            IF AvailableAt(w, -1) # {}
            THEN req[w].next_question \in AvailableAt(w, -1)
            ELSE IF AvailableAt(w, 1) # {}
            THEN req[w].next_question \in AvailableAt(w, 1)
            ELSE IF Available(w) # {}
            THEN req[w].next_question \in AvailableAt(w, 2) \cup AvailableAt(w, -2)
            ELSE req[w].next_question = Null

\* C22 witness: the target is MEDIUM with nothing available there, an EASY and
\* a HARD question are both available, and the EASY one was returned.
C22_Witness ==
    \E w \in Requests :
        /\ Selected(w) /\ TargetOf(w) = MEDIUM
        /\ AvailableAt(w, 0) = {}
        /\ AvailableAt(w, 1) # {}
        /\ req[w].next_question \in AvailableAt(w, -1)

\* the active questions of the chapter at difficulty d that attempt a has not
\* answered once the commit of request w is counted in
UnansweredAt(w, d) ==
    {q \in ActiveQuestions :
        /\ question[q].difficulty = d
        /\ q \notin AnsweredIds(req[w].aid) \cup {req[w].qid}}

\* C23: after a successful submit_answer that does not complete the attempt,
\* the attempt's current_difficulty is next_difficulty_after(previous
\* current_difficulty, is_correct), and the returned next_question, stored as
\* current_question, has that difficulty whenever the chapter holds an active
\* unanswered question of it.
C23_DifficultyAdaptsAndGuidesSelection ==
    [][\A w \in Requests :
          (Commits(w) /\ req'[w].outcome = "next") =>
              LET a == req[w].aid
                  adapted == ReferenceNextDifficulty(attempts[a].current_difficulty,
                                 req[w].sel = question[req[w].qid].correct_index)
              IN  /\ attempts'[a].current_difficulty = adapted
                  /\ attempts'[a].current_question = req'[w].snap.current_question
                  /\ UnansweredAt(w, adapted) # {} =>
                        attempts'[a].current_question \in UnansweredAt(w, adapted)]_vars

\* the question ids attempt a has answered after the step
AnsweredIdsAfter(a) == {r.question : r \in {x \in answers' : x.attempt = a}}

\* C24: when a successful submit_answer leaves num_answered below
\* quiz.num_questions but no active unanswered question remains in the chapter,
\* the attempt becomes COMPLETED with ended_at set and current_question null and
\* the call returns completed; no successful call leaves the attempt IN_PROGRESS
\* pointing at an answered question or at no question.
C24_ExhaustedBankCompletes ==
    [][\A w \in Requests :
          Commits(w) =>
              LET a == req[w].aid
              IN  /\ (/\ attempts'[a].num_answered < quiz_num_questions
                      /\ ActiveQuestions \ AnsweredIdsAfter(a) = {}) =>
                          /\ attempts'[a].status = COMPLETED
                          /\ attempts'[a].ended_at # Null
                          /\ attempts'[a].current_question = Null
                          /\ req'[w].outcome = "completed"
                  /\ attempts'[a].status = IN_PROGRESS =>
                          /\ attempts'[a].current_question # Null
                          /\ attempts'[a].current_question \notin AnsweredIdsAfter(a)]_vars

\* C24 witness: with no staff edit, a submit_answer answered the last active
\* question of the chapter and completed the attempt below num_questions.
C24_Witness ==
    \E w \in Requests :
        /\ req[w].kind = "submit" /\ pc[w] = "done" /\ req[w].outcome = "completed"
        /\ nstaff = 0
        /\ attempts[req[w].aid].status = COMPLETED
        /\ attempts[req[w].aid].current_question = Null
        /\ attempts[req[w].aid].num_answered < quiz_num_questions
        /\ attempts[req[w].aid].num_answered = Cardinality(RowsOf(req[w].aid))
        /\ ActiveQuestions # {}
        /\ ActiveQuestions \subseteq AnsweredIds(req[w].aid)

\* C25: AttemptAnswer rows are append-only: at most one row per (attempt,
\* question), and once a row exists no later operation of the system changes
\* its selected_index or is_correct or removes it.
C25_AnswerRowsAreAppendOnly ==
    [][/\ answers \subseteq answers'
       /\ \A r1, r2 \in answers' :
             (r1.attempt = r2.attempt /\ r1.question = r2.question) => r1 = r2]_vars

\* a submit_answer request for question q that loads attempt a now and runs its
\* checks now passes all of them
WouldAccept(a, q) ==
    /\ attempts[a].status = IN_PROGRESS
    /\ question_found(question, q)
    /\ ~question_not_current(attempts[a], q)
    /\ ~answer_exists(answers, a, q)

\* C26: an IN_PROGRESS attempt can always make progress: whenever an attempt is
\* IN_PROGRESS with current_question set, a submit_answer for that question is
\* accepted, also after staff soft-deleted questions of the chapter.
C26_CurrentQuestionIsAnswerable ==
    \A a \in AttemptIds :
        (attempts[a].status = IN_PROGRESS /\ attempts[a].current_question # Null) =>
            WouldAccept(a, attempts[a].current_question)

\* C27: whenever submit_answer succeeds, the submitted question is the
\* attempt's stored current_question at that moment; no submission is accepted
\* while the stored current_question is null.
C27_AcceptedAnswerIsForCurrentQuestion ==
    [][\A w \in Requests :
          Commits(w) =>
              /\ attempts[req[w].aid].current_question # Null
              /\ attempts[req[w].aid].current_question = req[w].qid]_vars

\* the students answer only what their attempt points at, and nothing edits the
\* bank or the quiz
OnlyCurrentQuestionsSubmitted ==
    /\ nstaff = 0
    /\ \A w \in Requests : req[w].kind = "submit" => req[w].for_current

\* the successful submit_answer calls of attempt a
SuccessfulSubmissions(a) ==
    {w \in Requests : /\ req[w].kind = "submit" /\ req[w].aid = a
                      /\ pc[w] = "done" /\ req[w].code = 200}

\* min(num_questions, number of active questions in the chapter)
SubmissionsNeeded ==
    IF quiz_num_questions <= Cardinality(ActiveQuestions)
    THEN quiz_num_questions ELSE Cardinality(ActiveQuestions)

\* the request that created attempt a has finished
Started(a) ==
    \E w \in Requests : req[w].kind = "start" /\ req[w].aid = a /\ pc[w] = "done"

BoundedSubmissions ==
    (OnlyCurrentQuestionsSubmitted /\ quiz_num_questions >= 1) =>
        \A a \in AttemptIds :
            /\ Cardinality(SuccessfulSubmissions(a)) <= SubmissionsNeeded
            /\ Cardinality(RowsOf(a)) = Cardinality(SuccessfulSubmissions(a))
            /\ Started(a) =>
                  (attempts[a].status = COMPLETED <=>
                      Cardinality(SuccessfulSubmissions(a)) = SubmissionsNeeded)

C29_CurrentQuestionIsUnanswered ==
    \A a \in AttemptIds :
        (attempts[a].status = IN_PROGRESS /\ attempts[a].current_question # Null)
            => attempts[a].current_question \notin AnsweredIds(a)

\* C30: in every reachable state, for every attempt, 0 <= num_correct <=
\* num_answered and num_correct is the number of the attempt's AttemptAnswer
\* rows with is_correct = true.
C30_NumCorrectCountsCorrectRows ==
    \A a \in AttemptIds :
        /\ 0 <= attempts[a].num_correct
        /\ attempts[a].num_correct <= attempts[a].num_answered
        /\ attempts[a].num_correct =
              Cardinality({r \in RowsOf(a) : r.is_correct})

====
